---------------------------- MODULE Spec2Model ----------------------------
(***************************************************************************)
(* PNG to JPG batch converter (png_to_jpg_converter.py).                   *)
(*                                                                         *)
(* The model covers PNGtoJPGConverter.convert_single_file and              *)
(* batch_convert, the command-line front end main() and the ConverterGUI   *)
(* handlers that start a batch on a worker thread and receive its result   *)
(* on the interface thread.  Images are one pixel wide and high: the       *)
(* colour-mode normalisation acts on every pixel alike.                    *)
(***************************************************************************)
EXTENDS Integers, Sequences, FiniteSets, TLC

VARIABLES
    caseSensitive,            \* platform: does Path.rglob match names case-sensitively
    input_dir,                \* the input directory given by the user ("" = none)
    output_arg,               \* the output directory given by the user ("" = none)
    rootExists,               \* the input directory exists
    tree,                     \* the files under the input directory: path -> image
    outDirExists,             \* the explicit output directory exists
    saveFails,                \* the filesystem refuses to write the output file
    background_color,         \* PNGtoJPGConverter.background_color
    jpgs,                     \* the .jpg files written: path -> [src, img, quality]
    mode,                     \* "cli" or "gui"
    pc,                       \* position of the thread running batch_convert
    png_files,                \* batch_convert: the discovery list
    i,                        \* batch_convert: loop index
    successful_conversions,   \* batch_convert: output paths
    errors,                   \* batch_convert: error strings
    trace,                    \* history: callback invocations and conversions, in order
    convert_btn,              \* GUI: state of the convert button
    progress_var,             \* GUI: progress readout and bar
    results_text,             \* GUI: result log
    dialog,                   \* GUI: last message box
    afterQueue,               \* GUI: callbacks posted with root.after
    workers,                  \* GUI: live worker threads
    batches,                  \* GUI: batches started
    finished,                 \* GUI: conversion_complete / conversion_error runs
    stdout,                   \* CLI: the report printed after the batch
    exitCode,                 \* CLI: -1 while running, else the exit code
    arg,                      \* a direct call of convert_single_file: its arguments
    ret                       \* a direct call of convert_single_file: its outcome

vars == << caseSensitive, input_dir, output_arg, rootExists, tree, outDirExists,
           saveFails, background_color, jpgs, mode, pc, png_files, i,
           successful_conversions, errors, trace, convert_btn, progress_var,
           results_text, dialog, afterQueue, workers, batches, finished,
           stdout, exitCode, arg, ret >>

fsVars == << caseSensitive, input_dir, output_arg, saveFails, background_color, mode >>
guiVars == << convert_btn, progress_var, results_text, dialog, afterQueue,
              workers, batches, finished >>
cliVars == << stdout, exitCode >>
callVars == << arg, ret >>

---------------------------------------------------------------------------
(* Bounds of the model *)

MaxFiles == 2        \* files under the input directory, command-line runs
MaxGuiFiles == 1     \* files under the input directory, GUI runs
MaxBatches == 2      \* batches started from one GUI session
MaxErrors == 11
MaxSuccess == 11

(* Program constants *)

DefaultQuality == 95
ShownSuccesses == 10
ShownErrors == 5

---------------------------------------------------------------------------
(* Paths.  A path is [dir, stem, ext]; "sub" is a subdirectory of "root". *)

Dirs == {"root", "sub"}
Stems == {"a", "b"}
Exts == {"png", "PNG", "Png", "txt"}
AllPaths == [dir : Dirs, stem : Stems, ext : Exts]
NoPath == [dir |-> "", stem |-> "", ext |-> ""]
OutDir == "out"

Lower(e) == IF e \in {"png", "PNG", "Png"} THEN "png" ELSE e

NameOf(p) == [stem |-> p.stem, ext |-> p.ext]

---------------------------------------------------------------------------
(* Images: [mode, px, palette].  px holds the channels of the one pixel;  *)
(* a palette image holds an index into its palette of RGBA entries.       *)

Corrupt == [mode |-> "corrupt", px |-> <<>>, palette |-> <<>>]

Image(m, px) == [mode |-> m, px |-> px, palette |-> <<>>]

Colors == { <<0, 0, 0>>, <<200, 100, 50>>, <<255, 255, 255>> }
Alphas == {0, 128, 255}
Greys == {0, 100, 255}
Palettes == { << <<200, 100, 50, 255>>, <<10, 20, 30, 0>> >>,
              << <<0, 0, 0, 128>>, <<255, 255, 255, 255>> >> }

Images ==
    { Image("RGB", c) : c \in Colors }
    \cup { Image("RGBA", c \o <<a>>) : c \in Colors, a \in Alphas }
    \cup { Image("LA", <<l, a>>) : l \in Greys, a \in Alphas }
    \cup { Image("L", <<l>>) : l \in Greys }
    \cup { Image("1", <<l>>) : l \in {0, 255} }
    \cup { [mode |-> "P", px |-> <<k>>, palette |-> pal] :
              k \in 1..2, pal \in Palettes }

BackgroundColors == { <<255, 255, 255>>, <<0, 64, 128>> }

\* Rounded division by 255 as the imaging library's blend computes it.
Div255(x) == LET t == x + 128 IN ((t \div 256) + t) \div 256

Blend(bg, src, a) ==
    IF a = 0 THEN bg
    ELSE IF a = 255 THEN src
    ELSE Div255(bg * (255 - a) + src * a)

\* img.convert('RGBA') of a palette image: the palette entry of the index.
ConvertRGBA(img) == Image("RGBA", img.palette[img.px[1]])

\* img.convert('RGB') of a non-alpha, non-palette image.
ConvertRGB(img) ==
    IF img.mode \in {"L", "1"}
    THEN Image("RGB", <<img.px[1], img.px[1], img.px[1]>>)
    ELSE Image("RGB", SubSeq(img.px, 1, 3))

\* The colour channels an image presents to paste into an RGB image.
PasteColor(img) ==
    IF img.mode = "LA" THEN <<img.px[1], img.px[1], img.px[1]>>
    ELSE SubSeq(img.px, 1, 3)

\* img.split()[-1] if img.mode in ('RGBA', 'LA') else None; <<>> is None.
MaskNoLA(img) == IF img.mode = "RGBA" THEN <<img.px[Len(img.px)]>> ELSE <<>>
Mask(img) == IF img.mode \in {"RGBA", "LA"} THEN <<img.px[Len(img.px)]>> ELSE <<>>

\* background.paste(img, mask=...)
Paste(bg, img, mask) ==
    LET c == PasteColor(img) IN
    IF mask = <<>> THEN Image("RGB", c)
    ELSE Image("RGB", [k \in 1..3 |-> Blend(bg[k], c[k], mask[1])])

\* Lines 43-51: the image handed to img.save.
Normalize(img, bg) ==
    IF img.mode \in {"RGBA", "LA", "P"}
    THEN LET im == IF img.mode = "P" THEN ConvertRGBA(img) ELSE img
         IN Paste(bg, im, Mask(im))
    ELSE IF img.mode # "RGB" THEN ConvertRGB(img)
    ELSE img

---------------------------------------------------------------------------
(* convert_single_file *)

NoQuality == <<>>

SaveQuality(quality) == IF quality # NoQuality THEN quality[1] ELSE DefaultQuality

JpgPathKeepExt(png_path, output_dir) ==
    [dir |-> IF output_dir = "" THEN png_path.dir ELSE output_dir,
     stem |-> png_path.stem, ext |-> png_path.ext]
\* Lines 30-38: output_dir / (png_path.stem + '.jpg').  The original
\* extension does not enter the output name.
JpgPath(png_path, output_dir) ==
    [dir |-> IF output_dir = "" THEN png_path.dir ELSE output_dir,
     stem |-> png_path.stem, ext |-> "jpg"]

\* Lines 29-57, reached once the source is known to exist: the exception the
\* try block ends with ("" when it returns) and the filesystem it leaves.
AfterExists(png_path, output_dir, quality) ==
    LET made == outDirExists \/ output_dir # ""
        jpg_path == JpgPath(png_path, output_dir)
        img == tree[png_path]
    IN  IF img = Corrupt
        THEN [exc |-> "UnidentifiedImageError", jpg_path |-> NoPath,
              outDirExists |-> made, jpgs |-> jpgs]
        ELSE IF saveFails
        THEN [exc |-> "OSError", jpg_path |-> NoPath,
              outDirExists |-> made, jpgs |-> jpgs]
        ELSE [exc |-> "", jpg_path |-> jpg_path, outDirExists |-> made,
              jpgs |-> [q \in DOMAIN jpgs \cup {jpg_path} |->
                          IF q = jpg_path
                          THEN [src |-> png_path,
                                img |-> Normalize(img, background_color),
                                quality |-> SaveQuality(quality)]
                          ELSE jpgs[q]]]

TryBodyMkdirFirst(png_path, output_dir, quality) ==
    IF png_path \notin DOMAIN tree
    THEN [exc |-> "FileNotFoundError", jpg_path |-> NoPath,
          outDirExists |-> (outDirExists \/ output_dir # ""), jpgs |-> jpgs]
    ELSE AfterExists(png_path, output_dir, quality)
\* The body of the try block, lines 25-57.
TryBody(png_path, output_dir, quality) ==
    IF png_path \notin DOMAIN tree
    THEN [exc |-> "FileNotFoundError", jpg_path |-> NoPath,
          outDirExists |-> outDirExists, jpgs |-> jpgs]
    ELSE AfterExists(png_path, output_dir, quality)

\* except Exception as e: return False, str(e)
Catch(b) ==
    IF b.exc = "" THEN [raised |-> FALSE, ok |-> TRUE, path |-> b.jpg_path, msg |-> ""]
    ELSE [raised |-> FALSE, ok |-> FALSE, path |-> NoPath, msg |-> b.exc]

\* The whole of convert_single_file: its return value and the filesystem after it.
convert_single_file(png_path, output_dir, quality) ==
    LET b == TryBody(png_path, output_dir, quality)
    IN  [ret |-> Catch(b), outDirExists |-> b.outDirExists, jpgs |-> b.jpgs]

NoRet == [called |-> FALSE, raised |-> FALSE, ok |-> FALSE, path |-> NoPath, msg |-> ""]
NoArg == [png_path |-> NoPath, output_dir |-> "", quality |-> NoQuality]

---------------------------------------------------------------------------
(* Directory trees *)

EmptyTree == [p \in {} |-> Corrupt]
NoJpgs == [p \in {} |-> [src |-> NoPath, img |-> Corrupt, quality |-> 0]]

\* A case-insensitive filesystem holds no two names that differ only in case.
FileSets(cs) ==
    { F \in SUBSET AllPaths :
        /\ Cardinality(F) <= MaxFiles
        /\ cs \/ \A p, q \in F :
                   (p.dir = q.dir /\ p.stem = q.stem /\ Lower(p.ext) = Lower(q.ext))
                       => p = q }

BatchImages == { Corrupt, Image("RGBA", <<200, 100, 50, 0>>) }

Trees(cs) == UNION { [F -> BatchImages] : F \in FileSets(cs) }

Orderings(S) ==
    { s \in [1..Cardinality(S) -> S] :
        \A j, k \in 1..Cardinality(S) : j # k => s[j] # s[k] }

---------------------------------------------------------------------------
(* batch_convert *)

\* Does a directory entry's extension match the extension of a glob pattern:
\* pathlib matches case-sensitively on POSIX and case-insensitively on Windows.
fnmatch(ext, pat) == IF caseSensitive THEN ext = pat ELSE Lower(ext) = Lower(pat)

\* input_dir.rglob('*.' + pat): the entries at any depth, in directory order.
rglob(ord, pat) == SelectSeq(ord, LAMBDA p : fnmatch(p.ext, pat))

\* Line 69.
Discover(ord) == rglob(ord, "png") \o rglob(ord, "PNG")

ErrorEntry(name, msg) == [name |-> name, msg |-> msg]

NoMessage == << >>

EmptyResultNone == << >>
\* Line 72: the error list returned when nothing is discovered.
EmptyResult ==
    << ErrorEntry([stem |-> "", ext |-> ""],
                  "No PNG files found in the specified directory") >>

CompleteName == [stem |-> "Conversion complete!", ext |-> ""]

CallbackEvent(index, total, filename) ==
    [ev |-> "cb", index |-> index, total |-> total, filename |-> filename,
     src |-> NoPath, ok |-> FALSE, dst |-> NoPath]

ConvEvent(src, r) ==
    [ev |-> "conv", index |-> 0, total |-> 0, filename |-> NameOf(src),
     src |-> src, ok |-> r.ok, dst |-> r.path]

ProgressArgsOffByOne(k, files) ==
    CallbackEvent(k + 1, Len(files), NameOf(files[k + 1]))
\* Line 79: progress_callback(i, len(png_files), str(png_file.name)).
ProgressArgs(k, files) ==
    CallbackEvent(k, Len(files), NameOf(files[k + 1]))

\* Line 89.
FinalArgs(files) == CallbackEvent(Len(files), Len(files), CompleteName)

\* ConverterGUI.update_progress
update_progress(current, total, filename) ==
    [text |-> "Converting", filename |-> filename, current |-> current,
     total |-> total, value |-> (current * 100) \div total]

Ready == [text |-> "Ready", filename |-> [stem |-> "", ext |-> ""],
          current |-> 0, total |-> 0, value |-> 0]

\* The effect of the progress callback each front end passes.
Report(e) ==
    IF mode = "gui"
    THEN progress_var' = update_progress(e.index, e.total, e.filename)
    ELSE UNCHANGED progress_var

batch_convert_enter ==
    /\ pc = "enter"
    /\ IF ~rootExists
       THEN /\ pc' = "raised"
            /\ UNCHANGED << png_files, i, successful_conversions, errors >>
       ELSE \E ord \in Orderings(DOMAIN tree) :
              LET files == Discover(ord) IN
              /\ png_files' = files
              /\ i' = 0
              /\ successful_conversions' = << >>
              /\ errors' = IF files = << >> THEN EmptyResult ELSE NoMessage
              /\ pc' = IF files = << >> THEN "returned" ELSE "callback"
    /\ UNCHANGED << fsVars, rootExists, tree, outDirExists, jpgs, trace,
                    guiVars, cliVars, callVars >>

batch_convert_callback ==
    /\ pc = "callback"
    /\ LET e == ProgressArgs(i, png_files) IN
         /\ trace' = Append(trace, e)
         /\ Report(e)
    /\ pc' = "convert"
    /\ UNCHANGED << fsVars, rootExists, tree, outDirExists, jpgs, png_files, i,
                    successful_conversions, errors, convert_btn, results_text,
                    dialog, afterQueue, workers, batches, finished, cliVars,
                    callVars >>

batch_convert_convert ==
    /\ pc = "convert"
    /\ LET png_file == png_files[i + 1]
           c == convert_single_file(png_file, output_arg, <<DefaultQuality>>)
       IN  /\ outDirExists' = c.outDirExists
           /\ jpgs' = c.jpgs
           /\ trace' = Append(trace, ConvEvent(png_file, c.ret))
           /\ IF c.ret.ok
              THEN /\ successful_conversions' = Append(successful_conversions, c.ret.path)
                   /\ UNCHANGED errors
              ELSE /\ errors' = Append(errors, ErrorEntry(NameOf(png_file), c.ret.msg))
                   /\ UNCHANGED successful_conversions
    /\ i' = i + 1
    /\ pc' = IF i + 1 < Len(png_files) THEN "callback" ELSE "final"
    /\ UNCHANGED << fsVars, rootExists, tree, png_files, guiVars, cliVars, callVars >>

batch_convert_finish ==
    /\ pc = "final"
    /\ LET e == FinalArgs(png_files) IN
         /\ trace' = Append(trace, e)
         /\ Report(e)
    /\ pc' = "returned"
    /\ UNCHANGED << fsVars, rootExists, tree, outDirExists, jpgs, png_files, i,
                    successful_conversions, errors, convert_btn, results_text,
                    dialog, afterQueue, workers, batches, finished, cliVars,
                    callVars >>

batch_convert ==
    \/ batch_convert_enter
    \/ batch_convert_callback
    \/ batch_convert_convert
    \/ batch_convert_finish

---------------------------------------------------------------------------
(* Reports *)

Min(a, b) == IF a < b THEN a ELSE b

NoReport == [written |-> FALSE, nSucc |-> 0, nErr |-> 0, shownSucc |-> << >>,
             moreSucc |-> 0, shownErr |-> << >>, moreErr |-> 0]

GuiErrorsShownAll(errs) == errs
\* Line 237: for error in errors[:5].
GuiErrorsShown(errs) == SubSeq(errs, 1, Min(ShownErrors, Len(errs)))

\* Lines 224-242: the text conversion_complete inserts into the result log.
GuiReport(successful, errs) ==
    [written |-> TRUE,
     nSucc |-> Len(successful),
     nErr |-> Len(errs),
     shownSucc |-> SubSeq(successful, 1, Min(ShownSuccesses, Len(successful))),
     moreSucc |-> IF Len(successful) > ShownSuccesses
                  THEN Len(successful) - ShownSuccesses ELSE 0,
     shownErr |-> GuiErrorsShown(errs),
     moreErr |-> IF Len(errs) > ShownErrors THEN Len(errs) - ShownErrors ELSE 0]

\* Lines 295-303: what main prints after the batch.
CliReport(successful, errs) ==
    [written |-> TRUE,
     nSucc |-> Len(successful),
     nErr |-> Len(errs),
     shownSucc |-> << >>,
     moreSucc |-> 0,
     shownErr |-> errs,
     moreErr |-> 0]

\* Lines 245-250: the summary message box.
SummaryDialog(successful, errs) ==
    IF successful # << >> /\ errs = << >> THEN "info: success"
    ELSE IF successful # << >> /\ errs # << >> THEN "warning: partial success"
    ELSE "error: no files were converted"

---------------------------------------------------------------------------
(* main, command-line mode *)

ExitCodeOnErrors(raised, errs) == IF raised \/ errs # << >> THEN 1 ELSE 0
\* Lines 282-310: sys.exit(1) in the except clause, a plain return otherwise.
ExitCode(raised, errs) == IF raised THEN 1 ELSE 0

main_start ==
    /\ mode = "cli"
    /\ pc = "idle"
    /\ exitCode = -1
    /\ IF input_dir = ""
       THEN /\ exitCode' = 0
            /\ pc' = "exited"
       ELSE /\ pc' = "enter"
            /\ UNCHANGED exitCode
    /\ UNCHANGED << fsVars, rootExists, tree, outDirExists, jpgs, png_files, i,
                    successful_conversions, errors, trace, guiVars, stdout,
                    callVars >>

main_report ==
    /\ mode = "cli"
    /\ pc = "returned"
    /\ stdout' = CliReport(successful_conversions, errors)
    /\ exitCode' = ExitCode(FALSE, errors)
    /\ pc' = "exited"
    /\ UNCHANGED << fsVars, rootExists, tree, outDirExists, jpgs, png_files, i,
                    successful_conversions, errors, trace, guiVars, callVars >>

main_except ==
    /\ mode = "cli"
    /\ pc = "raised"
    /\ exitCode' = ExitCode(TRUE, errors)
    /\ pc' = "exited"
    /\ UNCHANGED << fsVars, rootExists, tree, outDirExists, jpgs, png_files, i,
                    successful_conversions, errors, trace, guiVars, stdout,
                    callVars >>

---------------------------------------------------------------------------
(* ConverterGUI *)

ButtonWhileRunningEnabled == "normal"
\* Line 196: self.convert_btn.config(state='disabled').
ButtonWhileRunning == "disabled"

\* The button's command runs only while the button is enabled.
start_conversion ==
    /\ mode = "gui"
    /\ convert_btn = "normal"
    /\ batches < MaxBatches
    /\ IF input_dir = ""
       THEN /\ dialog' = "error: select an input directory"
            /\ UNCHANGED << convert_btn, results_text, workers, batches, pc, trace >>
       ELSE IF ~rootExists
       THEN /\ dialog' = "error: input directory does not exist"
            /\ UNCHANGED << convert_btn, results_text, workers, batches, pc, trace >>
       ELSE /\ convert_btn' = ButtonWhileRunning
            /\ results_text' = NoReport
            /\ workers' = workers + 1
            /\ batches' = batches + 1
            /\ pc' = "enter"
            /\ trace' = << >>
            /\ UNCHANGED dialog
    /\ UNCHANGED << fsVars, rootExists, tree, outDirExists, jpgs, png_files, i,
                    successful_conversions, errors, progress_var, afterQueue,
                    finished, cliVars, callVars >>

\* The input directory disappears after start_conversion has checked it and
\* before the worker thread looks at it.
input_dir_removed ==
    /\ mode = "gui"
    /\ pc = "enter"
    /\ rootExists
    /\ rootExists' = FALSE
    /\ tree' = [p \in {} |-> Corrupt]
    /\ UNCHANGED << fsVars, outDirExists, jpgs, pc, png_files, i,
                    successful_conversions, errors, trace, guiVars, cliVars,
                    callVars >>

\* perform_conversion after batch_convert: post the result to the interface
\* thread; the worker thread ends.
perform_conversion_post ==
    /\ mode = "gui"
    /\ pc \in {"returned", "raised"}
    /\ afterQueue' = Append(afterQueue,
                            [fn |-> IF pc = "returned" THEN "conversion_complete"
                                    ELSE "conversion_error",
                             successful |-> successful_conversions,
                             errors |-> errors])
    /\ workers' = workers - 1
    /\ pc' = "idle"
    /\ UNCHANGED << fsVars, rootExists, tree, outDirExists, jpgs, png_files, i,
                    successful_conversions, errors, trace, convert_btn,
                    progress_var, results_text, dialog, batches, finished,
                    cliVars, callVars >>

conversion_complete ==
    /\ mode = "gui"
    /\ afterQueue # << >>
    /\ Head(afterQueue).fn = "conversion_complete"
    /\ convert_btn' = "normal"
    /\ progress_var' = Ready
    /\ results_text' = GuiReport(Head(afterQueue).successful, Head(afterQueue).errors)
    /\ dialog' = SummaryDialog(Head(afterQueue).successful, Head(afterQueue).errors)
    /\ finished' = finished + 1
    /\ afterQueue' = Tail(afterQueue)
    /\ UNCHANGED << fsVars, rootExists, tree, outDirExists, jpgs, pc, png_files, i,
                    successful_conversions, errors, trace, workers, batches,
                    cliVars, callVars >>

conversion_error ==
    /\ mode = "gui"
    /\ afterQueue # << >>
    /\ Head(afterQueue).fn = "conversion_error"
    /\ convert_btn' = "normal"
    /\ progress_var' = Ready
    /\ dialog' = "error: conversion failed"
    /\ finished' = finished + 1
    /\ afterQueue' = Tail(afterQueue)
    /\ UNCHANGED << fsVars, rootExists, tree, outDirExists, jpgs, pc, png_files, i,
                    successful_conversions, errors, trace, results_text, workers,
                    batches, cliVars, callVars >>

---------------------------------------------------------------------------
(* The program: a front end running batches over a directory tree *)

InitFrontEnd ==
    /\ png_files = << >>
    /\ i = 0
    /\ trace = << >>
    /\ convert_btn = "normal"
    /\ progress_var = Ready
    /\ results_text = NoReport
    /\ dialog = "none"
    /\ afterQueue = << >>
    /\ workers = 0
    /\ batches = 0
    /\ finished = 0
    /\ stdout = NoReport
    /\ exitCode = -1
    /\ arg = NoArg
    /\ ret = NoRet

Init ==
    /\ caseSensitive \in BOOLEAN
    /\ mode \in {"cli", "gui"}
    /\ input_dir \in {"", "root"}
    /\ output_arg \in {"", OutDir}
    /\ rootExists \in BOOLEAN
    /\ input_dir = "" => ~rootExists
    /\ tree \in IF rootExists THEN Trees(caseSensitive) ELSE {EmptyTree}
    /\ mode = "gui" => Cardinality(DOMAIN tree) <= MaxGuiFiles
    /\ outDirExists = FALSE
    /\ saveFails = FALSE
    /\ background_color = <<255, 255, 255>>
    /\ jpgs = NoJpgs
    /\ pc = "idle"
    /\ successful_conversions = << >>
    /\ errors = << >>
    /\ InitFrontEnd

Worker == batch_convert \/ perform_conversion_post

Interface == conversion_complete \/ conversion_error

Next ==
    \/ main_start
    \/ main_report
    \/ main_except
    \/ start_conversion
    \/ input_dir_removed
    \/ batch_convert_enter
    \/ batch_convert_callback
    \/ batch_convert_convert
    \/ batch_convert_finish
    \/ perform_conversion_post
    \/ conversion_complete
    \/ conversion_error

Spec == Init /\ [][Next]_vars

---------------------------------------------------------------------------
(* The graphical front end alone, with its scheduling *)

InitGui == Init /\ mode = "gui"

NextGui ==
    \/ start_conversion
    \/ input_dir_removed
    \/ batch_convert_enter
    \/ batch_convert_callback
    \/ batch_convert_convert
    \/ batch_convert_finish
    \/ perform_conversion_post
    \/ conversion_complete
    \/ conversion_error

\* A started thread runs to its end, and the Tk main loop runs every callback
\* posted with root.after; nothing obliges the user to press the button.
FairSpec == InitGui /\ [][NextGui]_vars /\ WF_vars(Worker) /\ WF_vars(Interface)

---------------------------------------------------------------------------
(* convert_single_file called on its own *)

InitConvert ==
    /\ caseSensitive \in BOOLEAN
    /\ mode = "cli"
    /\ input_dir = "root"
    /\ output_arg = ""
    /\ rootExists = TRUE
    /\ \E p \in {q \in AllPaths : q.dir = "root" /\ q.stem = "a" /\ q.ext \in {"png", "PNG"}} :
         /\ tree \in {EmptyTree} \cup { [f \in {p} |-> im] : im \in Images \cup {Corrupt} }
         /\ arg \in [png_path : {p}, output_dir : {"", OutDir},
                     quality : {NoQuality, <<50>>}]
    /\ outDirExists \in BOOLEAN
    /\ saveFails \in BOOLEAN
    /\ background_color \in BackgroundColors
    /\ jpgs = NoJpgs
    /\ pc = "idle"
    /\ successful_conversions = << >>
    /\ errors = << >>
    /\ ret = NoRet
    /\ png_files = << >>
    /\ i = 0
    /\ trace = << >>
    /\ convert_btn = "normal"
    /\ progress_var = Ready
    /\ results_text = NoReport
    /\ dialog = "none"
    /\ afterQueue = << >>
    /\ workers = 0
    /\ batches = 0
    /\ finished = 0
    /\ stdout = NoReport
    /\ exitCode = -1

call_convert_single_file ==
    /\ ~ret.called
    /\ LET c == convert_single_file(arg.png_path, arg.output_dir, arg.quality) IN
         /\ ret' = [called |-> TRUE, raised |-> c.ret.raised, ok |-> c.ret.ok,
                    path |-> c.ret.path, msg |-> c.ret.msg]
         /\ outDirExists' = c.outDirExists
         /\ jpgs' = c.jpgs
    /\ UNCHANGED << fsVars, rootExists, tree, pc, png_files, i,
                    successful_conversions, errors, trace, guiVars, cliVars, arg >>

NextConvert == call_convert_single_file

SpecConvert == InitConvert /\ [][NextConvert]_vars

---------------------------------------------------------------------------
(* The reports of both front ends over batch results of any size *)

StemPool == << "a", "b", "c", "d", "e", "f", "g", "h", "i", "j", "k", "l", "m" >>

ResultOfSize(n) == [k \in 1..n |-> [dir |-> OutDir, stem |-> StemPool[k], ext |-> "jpg"]]

ErrorsOfSize(n) ==
    [k \in 1..n |-> ErrorEntry([stem |-> StemPool[k], ext |-> "png"],
                               "UnidentifiedImageError")]

InitReport ==
    /\ caseSensitive = TRUE
    /\ mode \in {"cli", "gui"}
    /\ input_dir = "root"
    /\ output_arg = OutDir
    /\ rootExists = TRUE
    /\ tree = EmptyTree
    /\ outDirExists = TRUE
    /\ saveFails = FALSE
    /\ background_color = <<255, 255, 255>>
    /\ jpgs = NoJpgs
    /\ pc = "returned"
    /\ \E n \in 0..MaxSuccess, m \in 0..MaxErrors :
         /\ n + m > 0
         /\ successful_conversions = ResultOfSize(n)
         /\ errors = ErrorsOfSize(m)
    /\ png_files = << >>
    /\ i = 0
    /\ trace = << >>
    /\ convert_btn = IF mode = "gui" THEN "disabled" ELSE "normal"
    /\ progress_var = Ready
    /\ results_text = NoReport
    /\ dialog = "none"
    /\ afterQueue = << >>
    /\ workers = IF mode = "gui" THEN 1 ELSE 0
    /\ batches = IF mode = "gui" THEN MaxBatches ELSE 0
    /\ finished = IF mode = "gui" THEN MaxBatches - 1 ELSE 0
    /\ stdout = NoReport
    /\ exitCode = -1
    /\ arg = NoArg
    /\ ret = NoRet

NextReport ==
    \/ main_report
    \/ perform_conversion_post
    \/ conversion_complete

SpecReport == InitReport /\ [][NextReport]_vars

---------------------------------------------------------------------------
(* Properties *)

\* The files under the input directory whose extension is "png" in any case.
MatchingFiles == { p \in DOMAIN tree : Lower(p.ext) = "png" }

Unconvertible == { p \in MatchingFiles : tree[p] = Corrupt }

Conversions == { k \in DOMAIN trace : trace[k].ev = "conv" }

Callbacks == { k \in DOMAIN trace : trace[k].ev = "cb" }

Attempts(p) == Cardinality({ k \in Conversions : trace[k].src = p })

Discovered == { png_files[k] : k \in DOMAIN png_files }

PastDiscovery == pc \in {"callback", "convert", "final", "returned"}

\* C1: for a tree holding N >= 1 files with a PNG extension in either case, M
\* of them unconvertible, a returned batch has attempted each of the N files
\* exactly once and len(success) + len(errors) = N and len(errors) = M.
C1_EveryFileOnce ==
    (pc = "returned" /\ MatchingFiles # {}) =>
        /\ \A p \in MatchingFiles : Attempts(p) = 1
        /\ Len(successful_conversions) + Len(errors) = Cardinality(MatchingFiles)
        /\ Len(errors) = Cardinality(Unconvertible)

\* C2: the discovery list holds exactly the files at any depth whose extension
\* matches "png" case-insensitively, each once and nothing else.
C2_DiscoveryExact ==
    PastDiscovery =>
        /\ Discovered = MatchingFiles
        /\ Len(png_files) = Cardinality(MatchingFiles)

C4_CallbackOrder ==
    /\ \A k \in DOMAIN trace :
         IF k % 2 = 1
         THEN /\ trace[k].ev = "cb"
              /\ trace[k].index = (k - 1) \div 2
              /\ trace[k].total = Len(png_files)
              /\ trace[k].total > 0
              /\ IF trace[k].index < trace[k].total
                 THEN trace[k].filename = NameOf(png_files[trace[k].index + 1])
                 ELSE /\ k = Len(trace)
                      /\ trace[k].index = trace[k].total
                      /\ trace[k].filename = CompleteName
         ELSE /\ trace[k].ev = "conv"
              /\ trace[k].src = png_files[k \div 2]
    /\ (pc = "returned" /\ png_files # << >>) =>
         /\ Cardinality(Callbacks) = Len(png_files) + 1
         /\ Cardinality(Conversions) = Len(png_files)
         /\ trace[Len(trace)].index = Len(png_files)

C4_Witness ==
    /\ pc = "returned"
    /\ Len(png_files) >= 2
    /\ Cardinality(Callbacks) = Len(png_files) + 1

\* C5: convert_single_file never raises; it returns (True, output path) or
\* (False, message); on a missing source it returns (False, not found) and
\* creates no directory and writes no file.
C5_Returns ==
    ret.called =>
        /\ ~ret.raised
        /\ ret.ok => (ret.path # NoPath /\ ret.msg = "" /\ ret.path \in DOMAIN jpgs)
        /\ ~ret.ok => (ret.path = NoPath /\ ret.msg # "")
        /\ arg.png_path \notin DOMAIN tree =>
              (~ret.ok /\ ret.msg = "FileNotFoundError" /\ jpgs = NoJpgs)

C5_NeverRaises ==
    /\ []C5_Returns
    /\ [][(~ret.called /\ ret'.called /\ arg.png_path \notin DOMAIN tree)
            => (outDirExists' = outDirExists /\ jpgs' = jpgs)]_vars

C5_Witness ==
    /\ ret.called
    /\ arg.png_path \notin DOMAIN tree
    /\ arg.output_dir = OutDir
    /\ ~outDirExists
    /\ ~ret.ok

\* C6: batch_convert on a missing input directory raises before any callback,
\* conversion or write, and on an existing one does not raise; in CLI mode the
\* exit code is 1 exactly when batch_convert raised and 0 otherwise.
C6_MissingRoot ==
    /\ pc = "raised" =>
         /\ ~rootExists
         /\ trace = << >>
         /\ batches <= 1 => (jpgs = NoJpgs /\ ~outDirExists)
    /\ PastDiscovery => rootExists
    /\ (mode = "cli" /\ pc = "exited") =>
         /\ exitCode \in {0, 1}
         /\ exitCode = 1 <=> (input_dir # "" /\ ~rootExists)
         /\ exitCode = 1 => ~stdout.written

C6_Witness ==
    /\ mode = "cli"
    /\ pc = "exited"
    /\ exitCode = 1

\* The colour and alpha of the one source pixel of an alpha or palette image.
SourceRGBA(img) ==
    IF img.mode = "RGBA" THEN img.px
    ELSE IF img.mode = "LA" THEN <<img.px[1], img.px[1], img.px[1], img.px[2]>>
    ELSE img.palette[img.px[1]]

Abs(x) == IF x < 0 THEN -x ELSE x

\* C7: the image handed to the encoder is RGB without alpha; for an RGBA, LA or
\* palette source each channel is the source channel composited over the
\* background colour by the source alpha: a transparent pixel becomes the
\* background colour, an opaque one keeps its colour.
C7_Flattened ==
    (ret.called /\ ret.ok) =>
        LET out == jpgs[ret.path].img
            src == tree[arg.png_path]
        IN  /\ out.mode = "RGB"
            /\ Len(out.px) = 3
            /\ \A k \in 1..3 : out.px[k] \in 0..255
            /\ src.mode \in {"RGBA", "LA", "P"} =>
                 LET c == SourceRGBA(src)
                     a == c[4]
                 IN  /\ \A k \in 1..3 :
                           2 * Abs(255 * out.px[k]
                                   - (c[k] * a + background_color[k] * (255 - a))) <= 255
                     /\ a = 0 => out.px = background_color
                     /\ a = 255 => out.px = SubSeq(c, 1, 3)

C7_Witness ==
    /\ ret.called
    /\ ret.ok
    /\ tree[arg.png_path].mode = "LA"
    /\ tree[arg.png_path].px[2] = 0
    /\ jpgs[ret.path].img.px = background_color

IsPrefix(s, t) == Len(s) <= Len(t) /\ s = SubSeq(t, 1, Len(s))

\* C8: every surface, CLI stdout and the GUI result log alike, reports the
\* success and error counts and shows at most the first 10 error strings.
C8_AllTruncated ==
    \A r \in {stdout, results_text} :
        r.written =>
            /\ r.nSucc = Len(successful_conversions)
            /\ r.nErr = Len(errors)
            /\ IsPrefix(r.shownErr, errors)
            /\ Len(r.shownErr) <= 10

\* C8 as amended: the GUI result log reports both counts and shows the first 5
\* error strings and the first 10 converted files, with the number left out;
\* CLI stdout reports both counts and prints every error string.
C8_GuiTruncatesCliPrintsAll ==
    /\ results_text.written =>
         /\ results_text.nSucc = Len(successful_conversions)
         /\ results_text.nErr = Len(errors)
         /\ IsPrefix(results_text.shownErr, errors)
         /\ Len(results_text.shownErr) = Min(5, Len(errors))
         /\ results_text.moreErr = Len(errors) - Len(results_text.shownErr)
         /\ IsPrefix(results_text.shownSucc, successful_conversions)
         /\ Len(results_text.shownSucc) = Min(10, Len(successful_conversions))
         /\ results_text.moreSucc
              = Len(successful_conversions) - Len(results_text.shownSucc)
    /\ stdout.written =>
         /\ stdout.nSucc = Len(successful_conversions)
         /\ stdout.nErr = Len(errors)
         /\ stdout.shownErr = errors

C8_Witness ==
    /\ results_text.written
    /\ Len(errors) > 5
    /\ Len(results_text.shownErr) = 5

\* C9: the convert button is disabled from start_conversion until
\* conversion_complete or conversion_error runs, so at most one worker exists;
\* every started batch leads to exactly one of them, which re-enables the
\* button and resets the readout to Ready, and no progress update of the batch
\* follows the reset.
C9_Safety ==
    mode = "gui" =>
        /\ workers <= 1
        /\ finished <= batches
        /\ batches <= finished + 1
        /\ convert_btn = "disabled" <=> finished < batches
        /\ workers = 1 => convert_btn = "disabled"
        /\ Len(afterQueue) + workers = batches - finished
        /\ convert_btn = "normal" => progress_var = Ready

C9_OneBatchAtATime ==
    /\ []C9_Safety
    /\ (convert_btn = "disabled") ~> (convert_btn = "normal" /\ progress_var = Ready)

C9_Witness ==
    /\ mode = "gui"
    /\ batches = 2
    /\ finished = 1
    /\ workers = 1
    /\ progress_var.text = "Converting"

EffectiveDir(p) == IF output_arg = "" THEN p.dir ELSE output_arg

Written == { k \in Conversions : trace[k].ok }

\* C10: distinct discovered files are written to distinct output paths, so the
\* number of .jpg files produced equals len(success).
C10_DistinctOutputs ==
    (pc = "returned" /\ batches <= 1) =>
        /\ \A j, k \in Written :
             trace[j].src # trace[k].src => trace[j].dst # trace[k].dst
        /\ Cardinality(DOMAIN jpgs) = Len(successful_conversions)

\* C10 as amended: two discovered files share an output path exactly when they
\* have the same stem and the same effective output directory (the explicit
\* one, else their own parent); the later conversion overwrites the earlier
\* one, and the number of .jpg files produced is the number of distinct
\* (effective directory, stem) pairs among the converted files, at most
\* len(success).
C10_OutputsByDirAndStem ==
    (pc = "returned" /\ batches <= 1) =>
        /\ \A j, k \in Written :
             trace[j].dst = trace[k].dst
               <=> (/\ trace[j].src.stem = trace[k].src.stem
                    /\ EffectiveDir(trace[j].src) = EffectiveDir(trace[k].src))
        /\ \A k \in Written :
             /\ trace[k].dst.ext = "jpg"
             /\ trace[k].dst.stem = trace[k].src.stem
             /\ trace[k].dst.dir = EffectiveDir(trace[k].src)
        /\ DOMAIN jpgs = { trace[k].dst : k \in Written }
        /\ \A k \in Written :
             (\A j \in Written : trace[j].dst = trace[k].dst => j <= k)
                => jpgs[trace[k].dst].src = trace[k].src
        /\ Cardinality(DOMAIN jpgs)
             = Cardinality({ <<EffectiveDir(trace[k].src), trace[k].src.stem>> :
                               k \in Written })
        /\ Cardinality(DOMAIN jpgs) <= Len(successful_conversions)
        /\ Len(successful_conversions) = Cardinality(Written)

C10_Witness ==
    /\ pc = "returned"
    /\ batches <= 1
    /\ Len(successful_conversions) = 2
    /\ Cardinality(DOMAIN jpgs) = 1
    /\ png_files[1] # png_files[2]

=============================================================================
